---- MODULE Spec2Model ----
(***************************************************************************)
(* The SMB handshake server of smbserver.py: SMBClientHandler.handle reads *)
(* four framed requests (NEGOTIATE, SESSION_SETUP_ANDX, TREE_CONNECT_ANDX, *)
(* ECHO) and answers each one; any exception ends the handler.             *)
(*                                                                         *)
(* Blocks are modelled at the granularity the decoders read them:          *)
(*   - a data block is a sequence of strings, each one either a single     *)
(*     byte ("00" the null byte, "02" the dialect format marker) or a run  *)
(*     of other bytes ("NT LM 0.12", "A:", ...);                           *)
(*   - a parameters block is the sequence of its packed fields, except the *)
(*     ECHO request's, which is its two bytes (low, high).                 *)
(* The classes of pysmb's smb_structs that the source subclasses and calls *)
(* (SMBMessage.reset/encode/decode, Payload.initMessage, the response      *)
(* classes used for messages that carry the reply flag) are modelled at    *)
(* the places where the source calls them.                                 *)
(***************************************************************************)
EXTENDS Integers, Sequences, FiniteSets, TLC

(* ------------------------------------------------------------------ *)
(* Bounds of the model                                                 *)
(* ------------------------------------------------------------------ *)

\* the largest number of dialect entries a NEGOTIATE data block offers
MaxDialects == 3

(* ------------------------------------------------------------------ *)
(* Protocol constants (smb_structs values named by the source)         *)
(* ------------------------------------------------------------------ *)

SMB_COM_NEGOTIATE == 114
SMB_COM_SESSION_SETUP_ANDX == 115
SMB_COM_TREE_CONNECT_ANDX == 117
SMB_COM_ECHO == 43
SMB_COM_READ_ANDX == 46

SMB_FLAGS_REPLY == 128
SMB_FLAGS2_EXTENDED_SECURITY == 2048
SMB_FLAGS2_UNICODE == 32768

CAP_UNICODE == 4
CAP_LARGE_FILES == 8
CAP_STATUS32 == 64

SMB_TREE_CONNECTX_SUPPORT_SEARCH == 1

\* the terminal ANDX command byte
ANDX_NONE == 255

\* SMBMessage.HEADER_STRUCT_SIZE, and len(message.parameters_data) of a
\* SESSION_SETUP_ANDX request: the 4 bytes of the ANDX header and the 22
\* of the '<HHHIHHII' fields
HEADER_STRUCT_SIZE == 33
SessionSetupParametersLen == 26

\* the null byte and the dialect buffer-format byte of a data block
NUL == "00"
MARKER == "02"

(* ------------------------------------------------------------------ *)
(* Integer bit operations on non-negative numbers                      *)
(* ------------------------------------------------------------------ *)

RECURSIVE BitAnd(_, _)
BitAnd(a, b) ==
  IF a = 0 \/ b = 0 THEN 0
  ELSE (a % 2) * (b % 2) + 2 * BitAnd(a \div 2, b \div 2)

BitOr(a, b) == a + b - BitAnd(a, b)

\* a & b: the complement is forgotten
AndNot_MissingComplement(a, b) == BitAnd(a, b)

\* a & ~b
AndNot(a, b) == a - BitAnd(a, b)

(* ------------------------------------------------------------------ *)
(* Exceptions and attribute access                                     *)
(* ------------------------------------------------------------------ *)

\* the result of a call that raised
Raised == [exc |-> TRUE]
IsRaised(x) == "exc" \in DOMAIN x

\* payload of a message whose command has no payload class
NonePayload == [cls |-> "None"]

\* hasattr(p, a): a missing attribute makes p.a raise AttributeError
HasAttr(p, a) == a \in DOMAIN p

\* getattr(p, a, default)
GetAttr(p, a, default) == IF a \in DOMAIN p THEN p[a] ELSE default

(* ------------------------------------------------------------------ *)
(* Request payload decoders                                            *)
(* ------------------------------------------------------------------ *)

\* bytes.split(b'\0'): the runs between null bytes, k+1 runs for k nulls
RECURSIVE SplitNul(_, _)
SplitNul(data, cur) ==
  IF data = <<>> THEN <<cur>>
  ELSE IF Head(data) = NUL THEN <<cur>> \o SplitNul(Tail(data), <<>>)
  ELSE SplitNul(Tail(data), Append(cur, Head(data)))

\* bytes.lstrip(b"\x02"): every leading marker byte is removed
RECURSIVE LStripMarker(_)
LStripMarker(d) ==
  IF d # <<>> /\ Head(d) = MARKER THEN LStripMarker(Tail(d)) ELSE d

\* ComNegotiateRequest.decode
ComNegotiateRequest_decode(message) ==
  LET parts == SplitNul(message.data, <<>>)
      a == parts[Len(parts)]
      rest == SubSeq(parts, 1, Len(parts) - 1)
  IN IF a # <<>> THEN Raised
     ELSE [cls |-> "ComNegotiateRequest",
           dialects |-> [i \in 1..Len(rest) |-> LStripMarker(rest[i])]]

\* bytes.index(term, s) on message.raw_data, for a terminator of `width`
\* zero bytes: the lowest offset at or after s where it occurs, -1 for the
\* ValueError.  raw_data is the whole message; its data block, the last
\* block, starts at offset data_offset.
RECURSIVE raw_data_index(_, _, _, _)
raw_data_index(data, data_offset, width, s) ==
  IF s + width > data_offset + Len(data) THEN -1
  ELSE IF \A j \in 0..(width - 1) : data[s + j - data_offset + 1] = NUL
       THEN s
  ELSE raw_data_index(data, data_offset, width, s + 1)

\* a string walk that takes the first terminator found, wherever it is
find_term_FirstMatch(data, data_offset, width, s) ==
  raw_data_index(data, data_offset, width, s)

\* the inner loop of the string walk: a terminator found at an odd offset
\* is passed over, in either encoding
RECURSIVE find_term(_, _, _, _)
find_term(data, data_offset, width, s) ==
  LET next_offset == raw_data_index(data, data_offset, width, s)
  IN IF next_offset = -1 THEN -1
     ELSE IF next_offset % 2 = 1
          THEN find_term(data, data_offset, width, next_offset + 1)
     ELSE next_offset

\* "read padding": in unicode mode an odd raw_offset is followed by one
\* zero byte; -1 when that byte is missing or is not zero
read_padding(data, data_offset, raw_offset, is_unicode) ==
  IF raw_offset % 2 = 1 /\ is_unicode
  THEN IF raw_offset >= data_offset + Len(data) THEN -1
       ELSE IF data[raw_offset - data_offset + 1] # NUL THEN -1
       ELSE raw_offset + 1
  ELSE raw_offset

\* len(term)
term_len(is_unicode) == IF is_unicode THEN 2 ELSE 1

\* one round of the loop over the four names: where the field starts,
\* where its terminator was found, and the raw_offset left for the next
read_string(data, data_offset, raw_offset, is_unicode) ==
  LET next_offset ==
        find_term(data, data_offset, term_len(is_unicode), raw_offset)
  IN IF next_offset = -1 THEN Raised
     ELSE [first |-> raw_offset, next_offset |-> next_offset,
           raw_offset |-> next_offset + term_len(is_unicode)]

\* message.raw_data[a:b]
raw_data_slice(data, data_offset, a, b) ==
  SubSeq(data, a - data_offset + 1, b - data_offset)

\* bytes.decode(encoding): a str is the sequence of its code units, each
\* the pair (low byte, high byte); "ascii" gives every byte the high byte
\* zero, "utf-16-le" pairs the bytes up
decode_str(bytes, is_unicode) ==
  IF is_unicode
  THEN [i \in 1..(Len(bytes) \div 2) |-> <<bytes[2 * i - 1], bytes[2 * i]>>]
  ELSE [i \in 1..Len(bytes) |-> <<bytes[i], NUL>>]

\* str.encode("utf-16-le")
RECURSIVE encode_utf16(_)
encode_utf16(str) ==
  IF str = <<>> THEN <<>> ELSE Head(str) \o encode_utf16(Tail(str))

\* the loop over username, domain, nativeos, nativelanman: elts, the
\* decoded strings of the `count` names still to read, or Raised
RECURSIVE read_strings(_, _, _, _, _)
read_strings(data, data_offset, raw_offset, is_unicode, count) ==
  IF count = 0 THEN [elts |-> <<>>]
  ELSE LET r == read_string(data, data_offset, raw_offset, is_unicode)
       IN IF IsRaised(r) THEN Raised
          ELSE LET rest == read_strings(data, data_offset, r.raw_offset,
                                        is_unicode, count - 1)
               IN IF IsRaised(rest) THEN Raised
                  ELSE [elts |->
                          <<decode_str(raw_data_slice(data, data_offset,
                                                      r.first, r.next_offset),
                                       is_unicode)>> \o rest.elts]

\* the offset in raw_data of the data block of a SESSION_SETUP_ANDX
\* request: the header, the 26 bytes of parameters and the byte count
SessionSetupDataOffset == HEADER_STRUCT_SIZE + SessionSetupParametersLen + 2

\* ComSessionSetupAndxRequest.decode.  parameters_data is the sequence
\* (andx_command, andx_reserved, andx_offset, max_buffer_size,
\* max_mpx_count, vc_number, session_key, length1, length2, reserved,
\* capabilities); data is the data block byte by byte: the two password
\* blobs, then the four strings.  A block with fewer fields makes
\* struct.unpack raise, a missing terminator makes raw_data.index raise.
ComSessionSetupAndxRequest_decode(message) ==
  LET p == message.parameters_data
      is_unicode == BitAnd(message.flags2, SMB_FLAGS2_UNICODE) # 0
  IN IF Len(p) < 3 THEN Raised
     ELSE IF ~(p[1] = ANDX_NONE /\ p[3] = 0) THEN Raised
     ELSE IF Len(p) # 11 THEN Raised
     ELSE LET raw_offset ==
                read_padding(message.data, SessionSetupDataOffset,
                             SessionSetupDataOffset + p[8] + p[9],
                             is_unicode)
              r == IF raw_offset = -1 THEN Raised
                   ELSE read_strings(message.data, SessionSetupDataOffset,
                                     raw_offset, is_unicode, 4)
              elts == r.elts
          IN IF IsRaised(r) THEN Raised
             ELSE [cls |-> "ComSessionSetupAndxRequest",
                   max_buffer_size |-> p[4], max_mpx_count |-> p[5],
                   vc_number |-> p[6], session_key |-> p[7],
                   capabilities |-> p[11],
                   username |-> elts[1], domain |-> elts[2],
                   native_os |-> elts[3], native_lan_man |-> elts[4]]

\* ComTreeConnectAndxRequest.decode that takes the service from the first
\* string of the data block, the path
ComTreeConnectAndxRequest_decode_ServiceFromPath(message) ==
  LET p == message.parameters_data
  IN IF Len(p) < 3 THEN Raised
     ELSE IF ~(p[1] = ANDX_NONE /\ p[3] = 0) THEN Raised
     ELSE IF Len(p) < 5 THEN Raised
     ELSE IF Len(message.data) < 2 THEN Raised
     ELSE [cls |-> "ComTreeConnectAndxRequest",
           path |-> message.data[1], service |-> message.data[1]]

\* ComTreeConnectAndxRequest.decode that reads on whatever the extension
\* header says
ComTreeConnectAndxRequest_decode_AnyAndx(message) ==
  LET p == message.parameters_data
  IN IF Len(p) < 5 THEN Raised
     ELSE IF Len(message.data) < 2 THEN Raised
     ELSE [cls |-> "ComTreeConnectAndxRequest",
           path |-> message.data[1], service |-> message.data[2]]

\* ComTreeConnectAndxRequest.decode.  parameters_data is the sequence
\* (andx_command, andx_reserved, andx_offset, flags, password_len); data
\* is the sequence of the terminated strings after the (empty) password:
\* path, service.
ComTreeConnectAndxRequest_decode(message) ==
  LET p == message.parameters_data
  IN IF Len(p) < 3 THEN Raised
     ELSE IF ~(p[1] = ANDX_NONE /\ p[3] = 0) THEN Raised
     ELSE IF Len(p) < 5 THEN Raised
     ELSE IF Len(message.data) < 2 THEN Raised
     ELSE [cls |-> "ComTreeConnectAndxRequest",
           path |-> message.data[1], service |-> message.data[2]]

\* ComEchoRequest.decode that reads the echo count big-endian
ComEchoRequest_decode_BigEndian(message) ==
  LET p == message.parameters_data
  IN IF Len(p) < 2 THEN Raised
     ELSE [cls |-> "ComEchoRequest",
           echo_count |-> 256 * p[1] + p[2],
           echo_data |-> message.data]

\* ComEchoRequest.decode: parameters_data is the block's bytes, the echo
\* count its first two bytes, little-endian
ComEchoRequest_decode(message) ==
  LET p == message.parameters_data
  IN IF Len(p) < 2 THEN Raised
     ELSE [cls |-> "ComEchoRequest",
           echo_count |-> p[1] + 256 * p[2],
           echo_data |-> message.data]

\* SMBMessage.isReply
isReply(message) == BitAnd(message.flags, SMB_FLAGS_REPLY) # 0

\* super()._decodePayload(): a message with the reply flag is decoded by the
\* library's response classes; an empty parameters block makes them raise.
\* None of these classes has an attribute dialects, domain, service or
\* echo_count, and only the NEGOTIATE response has capabilities.
smb_structs_decodePayload(message) ==
  IF message.command \notin {SMB_COM_NEGOTIATE, SMB_COM_SESSION_SETUP_ANDX,
                             SMB_COM_TREE_CONNECT_ANDX, SMB_COM_ECHO,
                             SMB_COM_READ_ANDX}
  THEN NonePayload
  ELSE IF message.parameters_data = <<>> THEN Raised
  ELSE IF message.command = SMB_COM_NEGOTIATE
       THEN [cls |-> "smb_structs.ComNegotiateResponse",
             dialect_index |-> 0, capabilities |-> 0]
  ELSE IF message.command = SMB_COM_SESSION_SETUP_ANDX
       THEN [cls |-> "smb_structs.ComSessionSetupAndxResponse",
             action |-> 0, primary_domain |-> ""]
  ELSE IF message.command = SMB_COM_TREE_CONNECT_ANDX
       THEN [cls |-> "smb_structs.ComTreeConnectAndxResponse",
             optional_support |-> 0]
  ELSE IF message.command = SMB_COM_ECHO
       THEN [cls |-> "smb_structs.ComEchoResponse",
             sequence_number |-> 0, data |-> message.data]
  ELSE [cls |-> "smb_structs.Response"]

\* SMBMessage._decodePayload: the payload of a decoded message, or Raised
\* (ComReadAndxRequest() without its constructor arguments is a TypeError)
decodePayload(message) ==
  IF isReply(message) THEN smb_structs_decodePayload(message)
  ELSE IF message.command = SMB_COM_READ_ANDX THEN Raised
  ELSE IF message.command = SMB_COM_TREE_CONNECT_ANDX
       THEN ComTreeConnectAndxRequest_decode(message)
  ELSE IF message.command = SMB_COM_ECHO
       THEN ComEchoRequest_decode(message)
  ELSE IF message.command = SMB_COM_SESSION_SETUP_ANDX
       THEN ComSessionSetupAndxRequest_decode(message)
  ELSE IF message.command = SMB_COM_NEGOTIATE
       THEN ComNegotiateRequest_decode(message)
  ELSE NonePayload

(* ------------------------------------------------------------------ *)
(* Building and encoding responses                                     *)
(* ------------------------------------------------------------------ *)

\* SMBMessage.reset(): the fields of a freshly constructed message
reset ==
  [command |-> 0, status |-> 0, flags |-> 0, flags2 |-> 0,
   pid |-> 0, tid |-> 0, uid |-> 0, mid |-> 0,
   parameters_data |-> <<>>, data |-> <<>>]

\* init_reply that leaves the flags of the message as they are
init_reply_FlagsUntouched(payload, message, command) ==
  [message EXCEPT
     !.command = command,
     !.tid = GetAttr(payload, "tid", 0),
     !.uid = GetAttr(payload, "uid", 0),
     !.mid = GetAttr(payload, "mid", 0)]

\* init_reply(payload, message, command)
init_reply(payload, message, command) ==
  [message EXCEPT
     !.command = command,
     !.flags = BitOr(message.flags, SMB_FLAGS_REPLY),
     !.flags2 = AndNot(message.flags2, SMB_FLAGS2_EXTENDED_SECURITY),
     !.tid = GetAttr(payload, "tid", 0),
     !.uid = GetAttr(payload, "uid", 0),
     !.mid = GetAttr(payload, "mid", 0)]

\* prepare(payload, message)
prepare(payload, message) ==
  [message EXCEPT !.pid = GetAttr(payload, "pid", 0)]

\* response_args_from_req(req, **kw)
response_args_from_req(req, kw) ==
  [pid |-> req.pid, tid |-> req.tid, uid |-> req.uid, mid |-> req.mid] @@ kw

\* the command each response class passes to init_reply in initMessage
initMessageCommand(payload) ==
  CASE payload.cls = "ComNegotiateResponse" -> SMB_COM_NEGOTIATE
    [] payload.cls = "ComSessionSetupAndxResponse" -> SMB_COM_SESSION_SETUP_ANDX
    [] payload.cls = "ComTreeConnectAndxResponse" -> SMB_COM_TREE_CONNECT_ANDX
    [] payload.cls = "ComEchoResponse" -> SMB_COM_ECHO

\* SMBMessage(payload): reset(), then payload.initMessage(message)
SMBMessage(payload) ==
  [payload |-> payload] @@ init_reply(payload, reset, initMessageCommand(payload))

\* a value struct.pack accepts for an unsigned 16-bit field
FitsH(v) == v >= 0 /\ v <= 65535

\* ComNegotiateResponse.prepare.  The parameters block is the packed
\* fields in order, without system_time (a 64-bit count of 100 ns units
\* taken from the clock); struct.pack raises for a field outside its range,
\* as for a negative server_time_zone in the unsigned 16-bit field.
ComNegotiateResponse_prepare(self, message) ==
  IF ~(FitsH(self.dialect_index) /\ FitsH(self.server_time_zone)) THEN Raised
  ELSE [self |-> self,
        message |-> [prepare(self, message) EXCEPT
           !.parameters_data =
              <<self.dialect_index, self.security_mode, self.max_mpx_count,
                self.max_number_vcs, self.max_buffer_size, self.max_raw_size,
                self.session_key, self.capabilities, self.server_time_zone,
                self.challenge_length>>,
           !.data = <<>>]]

\* ComSessionSetupAndxResponse.prepare: the terminal ANDX header, the
\* action and the length of the empty security blob; the header and the
\* parameters make 41 bytes, so the data block starts with one pad byte.
\* "Unix" and "DropboxFS" stand for their utf-16-le encodings.
ComSessionSetupAndxResponse_prepare(self, message) ==
  [self |-> self,
   message |-> [prepare(self, message) EXCEPT
      !.pid = self.pid,
      !.parameters_data = <<ANDX_NONE, 0, 0, self.action, 0>>,
      !.data = <<NUL, "Unix", NUL, NUL, "DropboxFS", NUL, NUL>>
               \o encode_utf16(self.domain) \o <<NUL, NUL>>]]

\* ComTreeConnectAndxResponse.prepare: the two blocks are assigned to the
\* payload (self), not to the message
ComTreeConnectAndxResponse_prepare(self, message) ==
  [self |-> [parameters_data |->
                <<ANDX_NONE, 0, 0, self.optional_support>>,
             data |-> <<"A:", NUL>>] @@ self,
   message |-> prepare(self, message)]

\* ComEchoResponse.prepare
ComEchoResponse_prepare(self, message) ==
  IF ~FitsH(self.sequence_number) THEN Raised
  ELSE [self |-> self,
        message |-> [prepare(self, message) EXCEPT
           !.parameters_data = <<self.sequence_number>>,
           !.data = self.data]]

\* payload.prepare(message), by the payload's class
Payload_prepare(self, message) ==
  CASE self.cls = "ComNegotiateResponse" ->
         ComNegotiateResponse_prepare(self, message)
    [] self.cls = "ComSessionSetupAndxResponse" ->
         ComSessionSetupAndxResponse_prepare(self, message)
    [] self.cls = "ComTreeConnectAndxResponse" ->
         ComTreeConnectAndxResponse_prepare(self, message)
    [] self.cls = "ComEchoResponse" ->
         ComEchoResponse_prepare(self, message)

\* the value os.getpid() returns inside SMBMessage.encode
os_getpid == 4242

\* SMBMessage.encode(): pid is set to the server's process id, the payload
\* prepares the message, and the header is packed with the pid split into
\* its high and low 16 bits
SMBMessage_encode(msg) ==
  LET r == Payload_prepare(msg.payload, [msg EXCEPT !.pid = os_getpid])
  IN IF IsRaised(r) THEN Raised
     ELSE LET m == r.message IN
       [command |-> m.command, status |-> m.status,
        flags |-> m.flags, flags2 |-> m.flags2,
        pid_high |-> (m.pid \div 65536) % 65536, pid_low |-> m.pid % 65536,
        tid |-> m.tid, uid |-> m.uid, mid |-> m.mid,
        parameters_data |-> m.parameters_data, data |-> m.data]

\* send_message(msg): what sendall puts on the wire after the length
\* prefix, or Raised when encode raises; sendall itself is taken to
\* complete
send_message(msg) == SMBMessage_encode(msg)

\* the process id a peer reads from an encoded header
WirePid(w) == w.pid_high * 65536 + w.pid_low

(* ------------------------------------------------------------------ *)
(* Reading requests                                                    *)
(* ------------------------------------------------------------------ *)

\* decode_smb_message: SMBMessage.decode checks the signature, unpacks the
\* header and the two blocks, then decodes the payload
decode_smb_message(d) ==
  IF ~d.signature_ok THEN Raised
  ELSE LET p == decodePayload(d.message)
       IN IF IsRaised(p) THEN Raised ELSE [payload |-> p] @@ d.message

\* read_message: d.got is the number of bytes the single recv(4) returned
\* (struct.unpack needs all four), d.eof says that the peer closed before
\* recv_all had the whole body
read_message(d) ==
  IF d.got # 4 THEN Raised
  ELSE IF d.eof THEN Raised
  ELSE decode_smb_message(d)

(* ------------------------------------------------------------------ *)
(* The requests a peer may send                                        *)
(* ------------------------------------------------------------------ *)

PidVals == {0, 65543}
TidVals == {0, 1}
UidVals == {0, 2}
MidVals == {0, 3}

\* headers: every combination of the four ids on a plain request, and one
\* header each with the reply flag and with the unicode flag
Headers ==
  { [flags |-> 0, flags2 |-> 0, pid |-> p, tid |-> t, uid |-> u, mid |-> m] :
      p \in PidVals, t \in TidVals, u \in UidVals, m \in MidVals }
  \cup { [flags |-> SMB_FLAGS_REPLY, flags2 |-> 0,
          pid |-> 65543, tid |-> 1, uid |-> 2, mid |-> 3],
         [flags |-> 0, flags2 |-> SMB_FLAGS2_UNICODE,
          pid |-> 65543, tid |-> 1, uid |-> 2, mid |-> 3] }

\* one dialect entry as the peer writes it before its terminator: a dialect
\* name, with no format marker, with one, or with two
DialectEntries ==
  { <<"NT LM 0.12">>, <<"LANMAN1.0">>,
    <<MARKER, "NT LM 0.12">>, <<MARKER, "LANMAN1.0">>,
    <<MARKER, MARKER, "NT LM 0.12">>,
    <<"NT LM 0.12", "LANMAN1.0">> }

\* the data block made of the entries es, each followed by its terminator
RECURSIVE JoinTerminated(_)
JoinTerminated(es) ==
  IF es = <<>> THEN <<>>
  ELSE Head(es) \o <<NUL>> \o JoinTerminated(Tail(es))

\* NEGOTIATE data blocks: up to MaxDialects terminated entries, and the
\* same blocks followed by bytes that no terminator ends
DialectBlocks ==
  LET lists == UNION { [1..n -> DialectEntries] : n \in 0..MaxDialects }
  IN { JoinTerminated(es) \o tail :
         es \in lists, tail \in {<<>>, <<"LANMAN1.0">>} }

\* capability bitmasks a peer may claim: 1 (raw mode) and 16 (NT SMBs)
\* are bits the server does not post
CapabilityVals ==
  { 0, CAP_UNICODE, CAP_UNICODE + CAP_LARGE_FILES + CAP_STATUS32,
    1, CAP_UNICODE + 16, CAP_UNICODE + CAP_LARGE_FILES + CAP_STATUS32 + 1 }

\* (andx_command, andx_offset) pairs: the terminal form and two others
AndxVals == { <<ANDX_NONE, 0>>, <<ANDX_NONE, 4>>, <<SMB_COM_TREE_CONNECT_ANDX, 0>> }

ServiceVals == { "?????", "A:", "LPT1:", "IPC" }

\* SESSION_SETUP_ANDX data blocks after empty password blobs, the strings
\* "u", "D" or "", "x", "s".  The block starts at the odd offset 61.
\* Single-byte strings whose terminators all fall on even offsets:
AsciiStringsEven == <<"u", NUL, "D", NUL, "x", NUL, "s", NUL>>
\* single-byte strings with an empty domain, whose terminators fall on odd
\* offsets from the domain on:
AsciiStringsOdd == <<"u", NUL, NUL, "x", NUL, "s", NUL>>
\* the pad byte and utf-16-le strings:
UnicodeStrings ==
  <<NUL, "u", NUL, NUL, NUL, "D", NUL, NUL, NUL,
    "x", NUL, NUL, NUL, "s", NUL, NUL, NUL>>
\* the pad byte and utf-16-le strings with an empty domain:
UnicodeStringsEmptyDomain ==
  <<NUL, "u", NUL, NUL, NUL, NUL, NUL, "x", NUL, NUL, NUL, "s", NUL, NUL, NUL>>

SessionSetupDataBlocks ==
  { AsciiStringsEven, AsciiStringsOdd, UnicodeStrings,
    UnicodeStringsEmptyDomain }

Bodies(command) ==
  CASE command = SMB_COM_NEGOTIATE ->
         { [parameters_data |-> <<>>, data |-> d] : d \in DialectBlocks }
    [] command = SMB_COM_SESSION_SETUP_ANDX ->
         { [parameters_data |->
              <<a[1], 0, a[2], 65535, 2, 0, 0, 0, 0, 0, c>>,
            data |-> d] :
             a \in AndxVals, c \in CapabilityVals,
             d \in SessionSetupDataBlocks }
         \cup { [parameters_data |-> <<>>, data |-> <<>>],
                [parameters_data |->
                   <<ANDX_NONE, 0, 0, 65535, 2, 0, 0, 0, 0, 0, 0>>,
                 data |-> <<"u", NUL, "D">>] }
    [] command = SMB_COM_TREE_CONNECT_ANDX ->
         { [parameters_data |-> <<a[1], 0, a[2], 0, 0>>,
            data |-> <<"share", s>>] : a \in AndxVals, s \in ServiceVals }
         \cup { [parameters_data |-> <<>>, data |-> <<>>],
                [parameters_data |-> <<ANDX_NONE, 0, 0, 0, 0>>,
                 data |-> <<"share">>] }
    [] command = SMB_COM_ECHO ->
         { [parameters_data |-> p, data |-> d] :
             p \in { <<>>, <<0, 0>>, <<1, 0>>, <<2, 0>>, <<0, 1>> },
             d \in { <<>>, <<"ping">>, <<"pi", NUL, "ng">> } }
    [] OTHER -> { [parameters_data |-> <<>>, data |-> <<>>] }

\* for each command, bodies that are sent under every header
BasicBodies(command) ==
  CASE command = SMB_COM_NEGOTIATE ->
         { [parameters_data |-> <<>>, data |-> d] :
             d \in { <<"NT LM 0.12", NUL>>, <<"LANMAN1.0", NUL>>,
                     <<MARKER, "LANMAN1.0", NUL, MARKER, "NT LM 0.12", NUL>> } }
    [] command = SMB_COM_SESSION_SETUP_ANDX ->
         { [parameters_data |->
              <<ANDX_NONE, 0, 0, 65535, 2, 0, 0, 0, 0, 0, c>>,
            data |-> AsciiStringsEven] :
             c \in { CAP_UNICODE + CAP_LARGE_FILES + CAP_STATUS32, 1 } }
    [] command = SMB_COM_TREE_CONNECT_ANDX ->
         { [parameters_data |-> <<ANDX_NONE, 0, 0, 0, 0>>,
            data |-> <<"share", s>>] : s \in { "A:", "IPC" } }
    [] command = SMB_COM_ECHO ->
         { [parameters_data |-> p, data |-> <<"ping">>] :
             p \in { <<1, 0>>, <<2, 0>> } }
    [] OTHER -> { [parameters_data |-> <<>>, data |-> <<>>] }

\* the commands a peer may send; 4 (close) is one the handler has no
\* payload class for
Commands ==
  { SMB_COM_NEGOTIATE, SMB_COM_SESSION_SETUP_ANDX, SMB_COM_TREE_CONNECT_ANDX,
    SMB_COM_ECHO, SMB_COM_READ_ANDX, 4 }

PlainHeader ==
  [flags |-> 0, flags2 |-> 0, pid |-> 65543, tid |-> 1, uid |-> 2, mid |-> 3]

UnicodeHeader ==
  [flags |-> 0, flags2 |-> SMB_FLAGS2_UNICODE,
   pid |-> 65543, tid |-> 1, uid |-> 2, mid |-> 3]

\* the messages a peer may frame: every body under the plain header, the
\* basic bodies under every header, and every SESSION_SETUP_ANDX body
\* under the unicode header
Requests ==
  UNION { { [command |-> c] @@ PlainHeader @@ b : b \in Bodies(c) }
          \cup { [command |-> c] @@ h @@ b :
                   h \in Headers, b \in BasicBodies(c) } :
          c \in Commands }
  \cup { [command |-> SMB_COM_SESSION_SETUP_ANDX] @@ UnicodeHeader @@ b :
           b \in Bodies(SMB_COM_SESSION_SETUP_ANDX) }

\* a message used where the frame never reaches the decoder
AnyRequest ==
  [command |-> SMB_COM_NEGOTIATE, flags |-> 0, flags2 |-> 0,
   pid |-> 65543, tid |-> 1, uid |-> 2, mid |-> 3,
   parameters_data |-> <<>>, data |-> <<"NT LM 0.12", NUL>>]

\* what one read_message call meets on the stream: a whole frame, a first
\* recv(4) that returned fewer than four bytes (none at all when the peer
\* has closed), a peer that closes inside the body, a body that does not
\* start with the protocol signature
Deliveries ==
  { [got |-> 4, eof |-> FALSE, signature_ok |-> TRUE, message |-> m] :
      m \in Requests }
  \cup { [got |-> g, eof |-> FALSE, signature_ok |-> TRUE,
          message |-> AnyRequest] : g \in 0..3 }
  \cup { [got |-> 4, eof |-> TRUE, signature_ok |-> TRUE,
          message |-> AnyRequest],
         [got |-> 4, eof |-> FALSE, signature_ok |-> FALSE,
          message |-> AnyRequest] }

\* the minutes the clock collaborator reports for -(local time - UTC)
TzOffsets == { -60, 0 }

\* connections the dispatcher may accept
ConnIds == { 1, 2 }

(* ------------------------------------------------------------------ *)
(* State                                                               *)
(* ------------------------------------------------------------------ *)

VARIABLES
  pc,         \* per connection: where handle() stands
  reads,      \* per connection: read_message calls made
  sentCmds,   \* per connection: commands of the responses sent, in order
  readCmds,   \* per connection: commands of the frames read (-1: no frame)
  lastReq,    \* per connection: what the latest read_message met
  lastState,  \* per connection: pc when the latest read was made
  lastResp,   \* per connection: what the latest step sent, or NoMsg
  postedCaps  \* per connection: capabilities of the NEGOTIATE response sent

\* the string walk of ComSessionSetupAndxRequest.decode, taken on its own
VARIABLES
  w_data,     \* message.data: the password blobs and what follows them
  w_blobs,    \* length1 + length2
  w_unicode,  \* is_unicode
  w_offset,   \* raw_offset
  w_elts,     \* elts, in order: each field's offsets and decoded string
  w_pc        \* "idle", "padding", "strings", "decoded" or "raised"

walkVars == <<w_data, w_blobs, w_unicode, w_offset, w_elts, w_pc>>

\* read_message and recv_all on one connection, recv call by recv call
VARIABLES
  stream,     \* the bytes the peer sends on the connection before it closes
  s_pos,      \* how many of them recv has returned so far
  r_pc,       \* "off", "idle", "recv_all", "returned", "raised", "failed"
              \* or "finished"
  r_start,    \* s_pos when the current read_message was entered
  len_,       \* recv_all: len_
  recvd,      \* recv_all: recvd
  toret,      \* recv_all: toret, joined
  r_asked,    \* recv_all: the size passed to the latest sock.recv
  r_missing,  \* recv_all: len_ - recvd when that call was made
  r_calls,    \* recv_all: sock.recv calls made so far
  frames,     \* the bodies read_message has handed to decode_smb_message
  r_sent      \* how many responses the handler has sent

frameVars ==
  <<stream, s_pos, r_pc, r_start, len_, recvd, toret, r_asked, r_missing,
    r_calls, frames, r_sent>>

vars ==
  <<pc, reads, sentCmds, readCmds, lastReq, lastState, lastResp, postedCaps,
    walkVars, frameVars>>

NoMsg == [none |-> TRUE]
IsMsg(x) == "none" \notin DOMAIN x

\* the command of a delivery that reached SMBMessage.decode's header
FrameCommand(d) ==
  IF d.got = 4 /\ ~d.eof /\ d.signature_ok THEN d.message.command ELSE -1

\* no connection has been accepted
NoConnections ==
  /\ pc = [c \in ConnIds |-> "Listening"]
  /\ reads = [c \in ConnIds |-> 0]
  /\ sentCmds = [c \in ConnIds |-> <<>>]
  /\ readCmds = [c \in ConnIds |-> <<>>]
  /\ lastReq = [c \in ConnIds |-> NoMsg]
  /\ lastState = [c \in ConnIds |-> "Listening"]
  /\ lastResp = [c \in ConnIds |-> NoMsg]
  /\ postedCaps = [c \in ConnIds |-> 0]

\* no string walk is followed
WalkIdle ==
  /\ w_data = <<>>
  /\ w_blobs = 0
  /\ w_unicode = FALSE
  /\ w_offset = 0
  /\ w_elts = <<>>
  /\ w_pc = "idle"

\* no stream is followed
FramesIdle ==
  /\ stream = <<>>
  /\ s_pos = 0
  /\ r_pc = "off"
  /\ r_start = 0
  /\ len_ = 0
  /\ recvd = 0
  /\ toret = <<>>
  /\ r_asked = 0
  /\ r_missing = 0
  /\ r_calls = 0
  /\ frames = <<>>
  /\ r_sent = 0

Init ==
  /\ NoConnections
  /\ WalkIdle
  /\ FramesIdle

(* ------------------------------------------------------------------ *)
(* The handler                                                         *)
(* ------------------------------------------------------------------ *)

\* main: the threading server accepts a connection and starts its handler
Accept(c) ==
  /\ pc[c] = "Listening"
  /\ pc' = [pc EXCEPT ![c] = "AwaitNegotiate"]
  /\ UNCHANGED <<reads, sentCmds, readCmds, lastReq, lastState, lastResp,
                 postedCaps>>
  /\ UNCHANGED <<walkVars, frameVars>>

\* list.index(x) counted from 1
IndexOf_OneBased(list, x) ==
  IF \E i \in 1..Len(list) : list[i] = x
  THEN CHOOSE i \in 1..Len(list) :
         list[i] = x /\ \A j \in 1..(i - 1) : list[j] # x
  ELSE -1

\* list.index(x): the 0-based position of the first element equal to x,
\* -1 standing for ValueError
IndexOf(list, x) ==
  IF \E i \in 1..Len(list) : list[i] = x
  THEN (CHOOSE i \in 1..Len(list) :
          list[i] = x /\ \A j \in 1..(i - 1) : list[j] # x) - 1
  ELSE -1

server_capabilities == BitOr(BitOr(CAP_UNICODE, CAP_LARGE_FILES), CAP_STATUS32)

\* an exception leaves handle(): nothing is sent for the request and the
\* handler is over
RaiseOut == [next |-> "Failed", resp |-> NoMsg]

\* send_message(msg) followed by the rest of handle() from state next
SendThen(msg, next) ==
  LET w == send_message(msg)
  IN IF IsRaised(w) THEN RaiseOut ELSE [next |-> next, resp |-> w]

\* handle(), first exchange: what becomes of delivery d when the clock
\* reports the offset utc_offset
HandleNegotiate(d, utc_offset) ==
  LET negotiate_req == read_message(d)
  IN IF IsRaised(negotiate_req) THEN RaiseOut
     ELSE IF negotiate_req.command # SMB_COM_NEGOTIATE THEN RaiseOut
     ELSE IF ~HasAttr(negotiate_req.payload, "dialects") THEN RaiseOut
     ELSE LET idx == IndexOf(negotiate_req.payload.dialects, <<"NT LM 0.12">>)
          IN IF idx = -1 THEN RaiseOut
             ELSE SendThen(
                    SMBMessage([cls |-> "ComNegotiateResponse",
                                dialect_index |-> idx,
                                security_mode |-> 0,
                                max_mpx_count |-> 65535,
                                max_number_vcs |-> 65535,
                                max_buffer_size |-> 65535,
                                max_raw_size |-> 65535,
                                session_key |-> 0,
                                capabilities |-> server_capabilities,
                                server_time_zone |-> utc_offset,
                                challenge_length |-> 0]),
                    "AwaitSessionSetup")

\* handle(), second exchange
HandleSessionSetup(d) ==
  LET session_setup_andx_req == read_message(d)
  IN IF IsRaised(session_setup_andx_req) THEN RaiseOut
     ELSE IF session_setup_andx_req.command # SMB_COM_SESSION_SETUP_ANDX
          THEN RaiseOut
     ELSE IF ~HasAttr(session_setup_andx_req.payload, "capabilities")
          THEN RaiseOut
     ELSE IF AndNot(session_setup_andx_req.payload.capabilities,
                    server_capabilities) # 0
          THEN RaiseOut
     ELSE IF ~HasAttr(session_setup_andx_req.payload, "domain") THEN RaiseOut
     ELSE SendThen(
            SMBMessage(response_args_from_req(session_setup_andx_req,
               [cls |-> "ComSessionSetupAndxResponse",
                action |-> 1,
                domain |-> session_setup_andx_req.payload.domain])),
            "AwaitTreeConnect")

\* handle(), third exchange
HandleTreeConnect(d) ==
  LET tree_connect_andx_req == read_message(d)
  IN IF IsRaised(tree_connect_andx_req) THEN RaiseOut
     ELSE IF tree_connect_andx_req.command # SMB_COM_TREE_CONNECT_ANDX
          THEN RaiseOut
     ELSE IF ~HasAttr(tree_connect_andx_req.payload, "service") THEN RaiseOut
     ELSE IF tree_connect_andx_req.payload.service \notin {"?????", "A:"}
          THEN RaiseOut
     ELSE SendThen(
            SMBMessage(response_args_from_req(tree_connect_andx_req,
               [cls |-> "ComTreeConnectAndxResponse",
                optional_support |-> SMB_TREE_CONNECTX_SUPPORT_SEARCH,
                service |-> "A:",
                native_file_system |-> "FAT"])),
            "AwaitEcho")

\* HandleEcho with the count and the data read through getattr defaults,
\* so that a payload of any class is answered
HandleEcho_DefaultedAttrs(d) ==
  LET echo_req == read_message(d)
  IN IF IsRaised(echo_req) THEN RaiseOut
     ELSE IF GetAttr(echo_req.payload, "echo_count", 1) > 1 THEN RaiseOut
     ELSE SendThen(
            SMBMessage(response_args_from_req(echo_req,
               [cls |-> "ComEchoResponse",
                sequence_number |-> 0,
                data |-> GetAttr(echo_req.payload, "echo_data", <<>>)])),
            "Done")

\* HandleEcho that waits for another ECHO after answering one
HandleEcho_Loops(d) ==
  LET echo_req == read_message(d)
  IN IF IsRaised(echo_req) THEN RaiseOut
     ELSE IF ~HasAttr(echo_req.payload, "echo_count") THEN RaiseOut
     ELSE IF echo_req.payload.echo_count > 1 THEN RaiseOut
     ELSE SendThen(
            SMBMessage(response_args_from_req(echo_req,
               [cls |-> "ComEchoResponse",
                sequence_number |-> 0,
                data |-> echo_req.payload.echo_data])),
            "AwaitEcho")

\* handle(), fourth exchange: the command is not compared, the payload's
\* echo_count is read straight away
HandleEcho(d) ==
  LET echo_req == read_message(d)
  IN IF IsRaised(echo_req) THEN RaiseOut
     ELSE IF ~HasAttr(echo_req.payload, "echo_count") THEN RaiseOut
     ELSE IF echo_req.payload.echo_count > 1 THEN RaiseOut
     ELSE SendThen(
            SMBMessage(response_args_from_req(echo_req,
               [cls |-> "ComEchoResponse",
                sequence_number |-> 0,
                data |-> echo_req.payload.echo_data])),
            "Done")

\* an exchange after which a failed step is tried again on the next frame
Exchange_Retries(c, d, out) ==
  /\ pc' = [pc EXCEPT ![c] = IF out.next = "Failed" THEN @ ELSE out.next]
  /\ reads' = [reads EXCEPT ![c] = @ + 1]
  /\ readCmds' = [readCmds EXCEPT ![c] = Append(@, FrameCommand(d))]
  /\ lastReq' = [lastReq EXCEPT ![c] = d]
  /\ lastState' = [lastState EXCEPT ![c] = pc[c]]
  /\ lastResp' = [lastResp EXCEPT ![c] = out.resp]
  /\ sentCmds' = [sentCmds EXCEPT ![c] =
                    IF IsMsg(out.resp) THEN Append(@, out.resp.command) ELSE @]
  /\ postedCaps' = [postedCaps EXCEPT ![c] =
                      IF IsMsg(out.resp) /\ out.resp.command = SMB_COM_NEGOTIATE
                      THEN out.resp.parameters_data[8] ELSE @]
  /\ UNCHANGED <<walkVars, frameVars>>

\* an exchange whose failure ends the handlers of all connections
Exchange_FailureEndsAll(c, d, out) ==
  /\ pc' = IF out.next = "Failed" THEN [o \in ConnIds |-> "Failed"]
           ELSE [pc EXCEPT ![c] = out.next]
  /\ reads' = [reads EXCEPT ![c] = @ + 1]
  /\ readCmds' = [readCmds EXCEPT ![c] = Append(@, FrameCommand(d))]
  /\ lastReq' = [lastReq EXCEPT ![c] = d]
  /\ lastState' = [lastState EXCEPT ![c] = pc[c]]
  /\ lastResp' = [lastResp EXCEPT ![c] = out.resp]
  /\ sentCmds' = [sentCmds EXCEPT ![c] =
                    IF IsMsg(out.resp) THEN Append(@, out.resp.command) ELSE @]
  /\ postedCaps' = [postedCaps EXCEPT ![c] =
                      IF IsMsg(out.resp) /\ out.resp.command = SMB_COM_NEGOTIATE
                      THEN out.resp.parameters_data[8] ELSE @]
  /\ UNCHANGED <<walkVars, frameVars>>

\* one exchange of connection c: the read, and the send if there is one
Exchange(c, d, out) ==
  /\ pc' = [pc EXCEPT ![c] = out.next]
  /\ reads' = [reads EXCEPT ![c] = @ + 1]
  /\ readCmds' = [readCmds EXCEPT ![c] = Append(@, FrameCommand(d))]
  /\ lastReq' = [lastReq EXCEPT ![c] = d]
  /\ lastState' = [lastState EXCEPT ![c] = pc[c]]
  /\ lastResp' = [lastResp EXCEPT ![c] = out.resp]
  /\ sentCmds' = [sentCmds EXCEPT ![c] =
                    IF IsMsg(out.resp) THEN Append(@, out.resp.command) ELSE @]
  /\ postedCaps' = [postedCaps EXCEPT ![c] =
                      IF IsMsg(out.resp) /\ out.resp.command = SMB_COM_NEGOTIATE
                      THEN out.resp.parameters_data[8] ELSE @]
  /\ UNCHANGED <<walkVars, frameVars>>

NegotiateStep(c) ==
  /\ pc[c] = "AwaitNegotiate"
  /\ \E d \in Deliveries, utc_offset \in TzOffsets :
       Exchange(c, d, HandleNegotiate(d, utc_offset))

SessionSetupStep(c) ==
  /\ pc[c] = "AwaitSessionSetup"
  /\ \E d \in Deliveries : Exchange(c, d, HandleSessionSetup(d))

TreeConnectStep(c) ==
  /\ pc[c] = "AwaitTreeConnect"
  /\ \E d \in Deliveries : Exchange(c, d, HandleTreeConnect(d))

EchoStep(c) ==
  /\ pc[c] = "AwaitEcho"
  /\ \E d \in Deliveries : Exchange(c, d, HandleEcho(d))

\* the connection the single-connection specification follows
OneConn == { 1 }

Next ==
  \E c \in OneConn :
    \/ Accept(c)
    \/ NegotiateStep(c)
    \/ SessionSetupStep(c)
    \/ TreeConnectStep(c)
    \/ EchoStep(c)

Spec == Init /\ [][Next]_vars

(* ------------------------------------------------------------------ *)
(* Several connections, each with its own handler thread               *)
(* ------------------------------------------------------------------ *)

\* what the peers of concurrent connections send: the basic bodies under
\* the plain header, and a length prefix that arrives in pieces
ConcurrentDeliveries ==
  UNION { { [got |-> 4, eof |-> FALSE, signature_ok |-> TRUE,
             message |-> [command |-> c] @@ PlainHeader @@ b] :
              b \in BasicBodies(c) } : c \in Commands }
  \cup { [got |-> 2, eof |-> FALSE, signature_ok |-> TRUE,
          message |-> AnyRequest] }

ConcurrentNegotiate(c) ==
  /\ pc[c] = "AwaitNegotiate"
  /\ \E d \in ConcurrentDeliveries, utc_offset \in TzOffsets :
       Exchange(c, d, HandleNegotiate(d, utc_offset))

ConcurrentSessionSetup(c) ==
  /\ pc[c] = "AwaitSessionSetup"
  /\ \E d \in ConcurrentDeliveries : Exchange(c, d, HandleSessionSetup(d))

ConcurrentTreeConnect(c) ==
  /\ pc[c] = "AwaitTreeConnect"
  /\ \E d \in ConcurrentDeliveries : Exchange(c, d, HandleTreeConnect(d))

ConcurrentEcho(c) ==
  /\ pc[c] = "AwaitEcho"
  /\ \E d \in ConcurrentDeliveries : Exchange(c, d, HandleEcho(d))

\* the threads of the connections run in any order
NextConcurrent ==
  \E c \in ConnIds :
    \/ Accept(c)
    \/ ConcurrentNegotiate(c)
    \/ ConcurrentSessionSetup(c)
    \/ ConcurrentTreeConnect(c)
    \/ ConcurrentEcho(c)

SpecConcurrent == Init /\ [][NextConcurrent]_vars

(* ------------------------------------------------------------------ *)
(* The string walk of ComSessionSetupAndxRequest.decode, step by step  *)
(* ------------------------------------------------------------------ *)

\* the longest data block walked
MaxWalkBytes == 11

\* data blocks: every sequence of zero bytes and letters up to the bound
WalkBlocks == UNION { [1..n -> {NUL, "a"}] : n \in 0..MaxWalkBytes }

\* a decode is entered with some data block, the password blobs taking
\* none or one of its bytes, in either encoding
InitWalk ==
  /\ NoConnections
  /\ w_data \in WalkBlocks
  /\ w_blobs \in 0..1
  /\ w_unicode \in BOOLEAN
  /\ w_offset = SessionSetupDataOffset + w_blobs
  /\ w_elts = <<>>
  /\ w_pc = "padding"
  /\ FramesIdle

UnchangedConnections ==
  UNCHANGED <<pc, reads, sentCmds, readCmds, lastReq, lastState, lastResp,
              postedCaps>>

\* "read padding"
WalkPadding ==
  /\ w_pc = "padding"
  /\ LET raw_offset == read_padding(w_data, SessionSetupDataOffset,
                                    w_offset, w_unicode)
     IN IF raw_offset = -1
        THEN w_pc' = "raised" /\ UNCHANGED w_offset
        ELSE w_pc' = "strings" /\ w_offset' = raw_offset
  /\ UNCHANGED <<w_data, w_blobs, w_unicode, w_elts>>
  /\ UnchangedConnections
  /\ UNCHANGED frameVars

\* one round of the loop over the four names
WalkString ==
  /\ w_pc = "strings"
  /\ LET r == read_string(w_data, SessionSetupDataOffset, w_offset, w_unicode)
     IN IF IsRaised(r)
        THEN w_pc' = "raised" /\ UNCHANGED <<w_offset, w_elts>>
        ELSE /\ w_elts' = Append(w_elts,
                   [first |-> r.first, next_offset |-> r.next_offset,
                    str |-> decode_str(
                              raw_data_slice(w_data, SessionSetupDataOffset,
                                             r.first, r.next_offset),
                              w_unicode)])
             /\ w_offset' = r.raw_offset
             /\ w_pc' = IF Len(w_elts) = 3 THEN "decoded" ELSE "strings"
  /\ UNCHANGED <<w_data, w_blobs, w_unicode>>
  /\ UnchangedConnections
  /\ UNCHANGED frameVars

NextWalk == WalkPadding \/ WalkString

SpecWalk == InitWalk /\ [][NextWalk]_vars

(* ------------------------------------------------------------------ *)
(* read_message and recv_all, recv call by recv call                   *)
(* ------------------------------------------------------------------ *)

\* the most frames a peer sends ahead, and the longest frame body
MaxFrames == 3
MaxBody == 2

\* struct.pack(">I", n) for the lengths used here, and struct.unpack
BigEndian(n) == <<0, 0, n \div 256, n % 256>>
unpack_I(b) == ((b[1] * 256 + b[2]) * 256 + b[3]) * 256 + b[4]

\* the i-th frame a peer sends, with a body of n bytes, each byte telling
\* its frame and its place
Frame(i, n) == BigEndian(n) \o [j \in 1..n |-> 16 * i + j]

RECURSIVE FramesInARow(_, _)
FramesInARow(lens, i) ==
  IF i > Len(lens) THEN <<>>
  ELSE Frame(i, lens[i]) \o FramesInARow(lens, i + 1)

\* what a peer may have sent when it closes: up to MaxFrames frames in a
\* row, or any beginning of them
Streams ==
  LET whole == { FramesInARow(lens, 1) :
                   lens \in UNION { [1..k -> 0..MaxBody] : k \in 0..MaxFrames } }
  IN UNION { { SubSeq(w, 1, n) : n \in 0..Len(w) } : w \in whole }

InitFrames ==
  /\ NoConnections
  /\ WalkIdle
  /\ stream \in Streams
  /\ s_pos = 0
  /\ r_pc = "idle"
  /\ r_start = 0
  /\ len_ = 0
  /\ recvd = 0
  /\ toret = <<>>
  /\ r_asked = 0
  /\ r_missing = 0
  /\ r_calls = 0
  /\ frames = <<>>
  /\ r_sent = 0

\* sock.recv(n) on a blocking socket, n > 0: the empty bytes once the peer
\* has closed and nothing is left, else at least one and at most n of the
\* bytes that follow, as many as have arrived
recv(n) ==
  IF s_pos = Len(stream) THEN { <<>> }
  ELSE { SubSeq(stream, s_pos + 1, s_pos + k) :
           k \in 1..(IF n < Len(stream) - s_pos THEN n
                     ELSE Len(stream) - s_pos) }

\* recv_all that asks for the whole length at every call
recv_size_WholeLength(len, got) == len

\* recv_all: the size asked of sock.recv
recv_size(len, got) == len - got

\* recv_all that returns what it has when the peer has closed
recv_all_chunk_StopsAtEof(b) ==
  IF b = <<>> THEN [recvd |-> len_, toret |-> toret]
  ELSE [recvd |-> recvd + Len(b), toret |-> toret \o b]

\* recv_all: the loop body after sock.recv returned b
recv_all_chunk(b) ==
  IF b = <<>> THEN Raised
  ELSE [recvd |-> recvd + Len(b), toret |-> toret \o b]

\* read_message up to the call of recv_all: one recv(4), and struct.unpack,
\* which raises unless it is given exactly four bytes
ReadPrefix ==
  /\ r_pc = "idle"
  /\ \E data \in recv(4) :
       /\ s_pos' = s_pos + Len(data)
       /\ IF Len(data) # 4
          THEN r_pc' = "raised" /\ UNCHANGED len_
          ELSE r_pc' = "recv_all" /\ len_' = unpack_I(data)
  /\ r_start' = s_pos
  /\ recvd' = 0
  /\ toret' = <<>>
  /\ r_calls' = 0
  /\ UNCHANGED <<stream, r_asked, r_missing, frames, r_sent>>
  /\ UnchangedConnections
  /\ UNCHANGED walkVars

\* recv_all: one round of the while loop
RecvAllRound ==
  /\ r_pc = "recv_all"
  /\ recvd # len_
  /\ \E b \in recv(recv_size(len_, recvd)) :
       LET st == recv_all_chunk(b)
       IN /\ s_pos' = s_pos + Len(b)
          /\ IF IsRaised(st)
             THEN r_pc' = "raised" /\ UNCHANGED <<recvd, toret>>
             ELSE /\ recvd' = st.recvd
                  /\ toret' = st.toret
                  /\ UNCHANGED r_pc
  /\ r_asked' = recv_size(len_, recvd)
  /\ r_missing' = len_ - recvd
  /\ r_calls' = r_calls + 1
  /\ UNCHANGED <<stream, r_start, len_, frames, r_sent>>
  /\ UnchangedConnections
  /\ UNCHANGED walkVars

\* recv_all returns, and read_message hands the bytes to decode_smb_message
RecvAllReturn ==
  /\ r_pc = "recv_all"
  /\ recvd = len_
  /\ frames' = Append(frames, toret)
  /\ r_pc' = "returned"
  /\ UNCHANGED <<stream, s_pos, r_start, len_, recvd, toret, r_asked,
                 r_missing, r_calls, r_sent>>
  /\ UnchangedConnections
  /\ UNCHANGED walkVars

\* handle after read_message returned: the step sends its response and the
\* handler reads on (it returns after its fourth step), or the step raises
HandleFrame ==
  /\ r_pc = "returned"
  /\ \/ /\ r_sent' = r_sent + 1
        /\ r_pc' = IF Len(frames) = 4 THEN "finished" ELSE "idle"
     \/ /\ r_pc' = "failed"
        /\ UNCHANGED r_sent
  /\ UNCHANGED <<stream, s_pos, r_start, len_, recvd, toret, r_asked,
                 r_missing, r_calls, frames>>
  /\ UnchangedConnections
  /\ UNCHANGED walkVars

NextFrames == ReadPrefix \/ RecvAllRound \/ RecvAllReturn \/ HandleFrame

SpecFrames == InitFrames /\ [][NextFrames]_vars

(* ------------------------------------------------------------------ *)
(* Properties                                                          *)
(* ------------------------------------------------------------------ *)

\* the latest read of connection c met a whole frame with a valid header
ReadAFrame(c) == reads[c] > 0 /\ FrameCommand(lastReq[c]) # -1

\* the message of the latest frame read on connection c
Req(c) == lastReq[c].message

\* bit k of the non-negative number n
Bit(n, k) == (n \div (2 ^ k)) % 2

HandshakeOrder ==
  << SMB_COM_NEGOTIATE, SMB_COM_SESSION_SETUP_ANDX,
     SMB_COM_TREE_CONNECT_ANDX, SMB_COM_ECHO >>

IsPrefix(s, t) == Len(s) <= Len(t) /\ s = SubSeq(t, 1, Len(s))

\* the command the handler awaits in each state
Awaited(state) ==
  CASE state = "AwaitNegotiate" -> SMB_COM_NEGOTIATE
    [] state = "AwaitSessionSetup" -> SMB_COM_SESSION_SETUP_ANDX
    [] state = "AwaitTreeConnect" -> SMB_COM_TREE_CONNECT_ANDX
    [] state = "AwaitEcho" -> SMB_COM_ECHO

\* C1: every response sent carries the pid, tid, uid and mid of the request
\* that triggered it (NEGOTIATE, SESSION_SETUP_ANDX, TREE_CONNECT_ANDX and
\* ECHO responses alike).
C1_ResponseIdsEqualRequestIds ==
  \A c \in ConnIds :
    IsMsg(lastResp[c]) =>
      /\ WirePid(lastResp[c]) = Req(c).pid
      /\ lastResp[c].tid = Req(c).tid
      /\ lastResp[c].uid = Req(c).uid
      /\ lastResp[c].mid = Req(c).mid

\* C2: the commands of the responses sent on a connection are a prefix of
\* NEGOTIATE, SESSION_SETUP_ANDX, TREE_CONNECT_ANDX, ECHO; every response
\* has a read of its own before it (sent <= reads <= sent + 1); and when the
\* first message read is a SESSION_SETUP_ANDX nothing is ever sent.
C2_ResponsesFollowHandshakeOrder ==
  \A c \in ConnIds :
    /\ IsPrefix(sentCmds[c], HandshakeOrder)
    /\ Len(sentCmds[c]) <= reads[c]
    /\ reads[c] <= Len(sentCmds[c]) + 1
    /\ Len(readCmds[c]) = reads[c]
    /\ (reads[c] > 0 /\ readCmds[c][1] = SMB_COM_SESSION_SETUP_ANDX)
         => sentCmds[c] = <<>>

\* C2 witness: all four responses have been sent, in order
C2_Witness ==
  /\ sentCmds[1] = HandshakeOrder
  /\ reads[1] = 4
  /\ pc[1] = "Done"

\* C3: in each of the four states, a message whose command is not the one
\* awaited there gets no response; in AwaitEcho too.
C3_WrongCommandGetsNoResponse ==
  \A c \in ConnIds :
    (ReadAFrame(c) /\ Req(c).command # Awaited(lastState[c]))
      => (~IsMsg(lastResp[c]) /\ Len(sentCmds[c]) = reads[c] - 1)

\* C3 witness: a well-formed TREE_CONNECT_ANDX request, read in AwaitEcho,
\* was left unanswered
C3_Witness ==
  /\ ReadAFrame(1)
  /\ lastState[1] = "AwaitEcho"
  /\ Req(1).command = SMB_COM_TREE_CONNECT_ANDX
  /\ ~isReply(Req(1))
  /\ ~IsRaised(decodePayload(Req(1)))
  /\ ~IsMsg(lastResp[1])
  /\ sentCmds[1] = SubSeq(HandshakeOrder, 1, 3)

\* a message that is a request (the reply bit, bit 7 of flags, is clear)
IsRequest(m) == Bit(m.flags, 7) = 0

\* c has a bit that s has not
HasBitOutside(c, s) == \E k \in 0..30 : Bit(c, k) = 1 /\ Bit(s, k) = 0

\* the byte of the message at offset k, the data block starting at
\* data_offset
ByteAt(data, data_offset, k) == data[k - data_offset + 1]

\* the offsets at or after start where a string may end: in single-byte
\* mode every zero byte, in double-byte mode every pair of zero bytes that
\* starts at an even offset
TerminatorOffsets(data, data_offset, start, is_unicode) ==
  { k \in start..(data_offset + Len(data) - 1) :
      IF is_unicode
      THEN /\ k % 2 = 0
           /\ k + 1 <= data_offset + Len(data) - 1
           /\ ByteAt(data, data_offset, k) = NUL
           /\ ByteAt(data, data_offset, k + 1) = NUL
      ELSE ByteAt(data, data_offset, k) = NUL }

\* the least element of a non-empty set of offsets
Least(S) == CHOOSE k \in S : \A j \in S : k <= j

\* where the strings start: in double-byte mode after the pad byte that
\* brings an odd offset to an even one; -1 if that byte is not there
StringsStart(data, data_offset, start, is_unicode) ==
  IF is_unicode /\ start % 2 = 1
  THEN IF start <= data_offset + Len(data) - 1
          /\ ByteAt(data, data_offset, start) = NUL
       THEN start + 1 ELSE -1
  ELSE start

\* the strings a well-formed block holds: for each of `count` fields the
\* offset where it starts and the offset of its terminator; fewer records
\* when a field has no terminator
RECURSIVE StringsLaidOut(_, _, _, _, _)
StringsLaidOut(data, data_offset, start, is_unicode, count) ==
  LET ends == TerminatorOffsets(data, data_offset, start, is_unicode)
  IN IF count = 0 \/ start = -1 \/ ends = {} THEN <<>>
     ELSE <<[first |-> start, end |-> Least(ends)]>>
          \o StringsLaidOut(data, data_offset,
                            Least(ends) + (IF is_unicode THEN 2 ELSE 1),
                            is_unicode, count - 1)

\* a SESSION_SETUP_ANDX request that is valid whatever its capabilities: a
\* terminal extension header, the eleven fixed fields, the two password
\* blobs and the four terminated strings
ValidSessionSetup(m) ==
  /\ m.command = SMB_COM_SESSION_SETUP_ANDX
  /\ IsRequest(m)
  /\ Len(m.parameters_data) = 11
  /\ m.parameters_data[1] = ANDX_NONE
  /\ m.parameters_data[3] = 0
  /\ LET unicode == Bit(m.flags2, 15) = 1
         blobs == m.parameters_data[8] + m.parameters_data[9]
     IN /\ blobs <= Len(m.data)
        /\ Len(StringsLaidOut(m.data, 61,
                              StringsStart(m.data, 61, 61 + blobs, unicode),
                              unicode, 4)) = 4

\* C4: a valid SESSION_SETUP_ANDX request read in AwaitSessionSetup is
\* answered with a SESSION_SETUP_ANDX response if and only if its capability
\* bitmask has no bit outside the bitmask posted in the NEGOTIATE response
\* (unicode | large files | 32-bit status); otherwise nothing is sent for it
\* and the handler is over.
C4_CapabilitiesDecideSessionSetup ==
  \A c \in ConnIds :
    (ReadAFrame(c) /\ lastState[c] = "AwaitSessionSetup"
       /\ ValidSessionSetup(Req(c)))
      => /\ postedCaps[c] = CAP_UNICODE + CAP_LARGE_FILES + CAP_STATUS32
         /\ IF HasBitOutside(Req(c).parameters_data[11], postedCaps[c])
            THEN /\ ~IsMsg(lastResp[c])
                 /\ pc[c] = "Failed"
                 /\ sentCmds[c] = SubSeq(HandshakeOrder, 1, 1)
            ELSE /\ IsMsg(lastResp[c])
                 /\ lastResp[c].command = SMB_COM_SESSION_SETUP_ANDX
                 /\ sentCmds[c] = SubSeq(HandshakeOrder, 1, 2)

\* C4 witness: a valid request that claims the three posted capabilities
\* and raw mode was rejected
C4_Witness ==
  /\ ReadAFrame(1)
  /\ lastState[1] = "AwaitSessionSetup"
  /\ ValidSessionSetup(Req(1))
  /\ Req(1).parameters_data[11] = CAP_UNICODE + CAP_LARGE_FILES + CAP_STATUS32 + 1
  /\ ~IsMsg(lastResp[1])

\* the positions of the null bytes of a data block
NulPositions(data) == { i \in 1..Len(data) : data[i] = NUL }

\* the position of the k-th null byte
NthNul(data, k) ==
  CHOOSE i \in NulPositions(data) :
    Cardinality({ j \in NulPositions(data) : j < i }) = k - 1

\* the k-th null-terminated entry of a data block
EntryAt(data, k) ==
  SubSeq(data, IF k = 1 THEN 1 ELSE NthNul(data, k - 1) + 1,
         NthNul(data, k) - 1)

\* an entry without its one-byte format marker, if it has one
StripOne(e) == IF e # <<>> /\ e[1] = MARKER THEN SubSeq(e, 2, Len(e)) ELSE e

\* an entry without any of its leading marker bytes
StripAll(e) ==
  LET kept == { i \in 1..Len(e) : e[i] # MARKER }
  IN IF kept = {} THEN <<>>
     ELSE SubSeq(e, CHOOSE i \in kept : \A j \in kept : i <= j, Len(e))

\* 0-based position of the first entry that is exactly "NT LM 0.12" once
\* its one-byte marker is stripped, -1 if there is none
OfferedIndexOneMarker(data) ==
  LET hits == { k \in 1..Cardinality(NulPositions(data)) :
                  StripOne(EntryAt(data, k)) = <<"NT LM 0.12">> }
  IN IF hits = {} THEN -1
     ELSE (CHOOSE k \in hits : \A j \in hits : k <= j) - 1

\* the same once all of its leading marker bytes are stripped
OfferedIndexAllMarkers(data) ==
  LET hits == { k \in 1..Cardinality(NulPositions(data)) :
                  StripAll(EntryAt(data, k)) = <<"NT LM 0.12">> }
  IN IF hits = {} THEN -1
     ELSE (CHOOSE k \in hits : \A j \in hits : k <= j) - 1

\* a data block that does not end with a null terminator
Unterminated(data) == data # <<>> /\ data[Len(data)] # NUL

\* a NEGOTIATE request was read in AwaitNegotiate on connection c
NegotiateRead(c) ==
  /\ ReadAFrame(c)
  /\ lastState[c] = "AwaitNegotiate"
  /\ Req(c).command = SMB_COM_NEGOTIATE
  /\ IsRequest(Req(c))

\* C5 as stated: the dialect index of the NEGOTIATE response is the position
\* of the entry that is exactly "NT LM 0.12" after its one-byte marker is
\* stripped; with no such entry nothing is sent; a data block that does not
\* end with a null byte is a decode error.
C5_IndexAfterOneMarkerStripped ==
  \A c \in ConnIds :
    NegotiateRead(c) =>
      LET idx == OfferedIndexOneMarker(Req(c).data)
      IN /\ IsMsg(lastResp[c]) =>
              /\ lastResp[c].command = SMB_COM_NEGOTIATE
              /\ idx # -1
              /\ lastResp[c].parameters_data[1] = idx
         /\ idx = -1 => (~IsMsg(lastResp[c]) /\ pc[c] = "Failed")
         /\ Unterminated(Req(c).data) => (~IsMsg(lastResp[c]) /\ pc[c] = "Failed")

\* C5 amended: the dialect index of the NEGOTIATE response is the position
\* of the first entry that is exactly "NT LM 0.12" after all of its leading
\* marker bytes are stripped; with no such entry nothing is sent, then or
\* later; a data block that does not end with a null byte is a decode error.
C5_IndexAfterAllMarkersStripped ==
  \A c \in ConnIds :
    NegotiateRead(c) =>
      LET idx == OfferedIndexAllMarkers(Req(c).data)
      IN /\ IsMsg(lastResp[c]) =>
              /\ lastResp[c].command = SMB_COM_NEGOTIATE
              /\ idx # -1
              /\ lastResp[c].parameters_data[1] = idx
         /\ idx = -1 => (~IsMsg(lastResp[c]) /\ pc[c] = "Failed")
         /\ Unterminated(Req(c).data) => (~IsMsg(lastResp[c]) /\ pc[c] = "Failed")

\* C5 witness: "LANMAN1.0" then "NT LM 0.12" were offered, each with its
\* marker, and the response carries index 1
C5_Witness ==
  /\ NegotiateRead(1)
  /\ Req(1).data = <<MARKER, "LANMAN1.0", NUL, MARKER, "NT LM 0.12", NUL>>
  /\ IsMsg(lastResp[1])
  /\ lastResp[1].parameters_data[1] = 1

\* an ECHO request whose parameters block holds the two bytes of the count
ValidEcho(m) ==
  /\ m.command = SMB_COM_ECHO
  /\ IsRequest(m)
  /\ Len(m.parameters_data) >= 2

\* the number of ECHO responses sent on connection c
EchoesSent(c) ==
  Cardinality({ i \in 1..Len(sentCmds[c]) : sentCmds[c][i] = SMB_COM_ECHO })

\* C6: an ECHO request read in AwaitEcho with count n and data d gets no
\* response when n > 1, and otherwise exactly one ECHO response, with
\* sequence number 0 and a data block equal to d.
C6_EchoFidelity ==
  \A c \in ConnIds :
    (ReadAFrame(c) /\ lastState[c] = "AwaitEcho" /\ ValidEcho(Req(c)))
      => LET n == Req(c).parameters_data[1] + 256 * Req(c).parameters_data[2]
         IN IF n > 1
            THEN ~IsMsg(lastResp[c]) /\ EchoesSent(c) = 0 /\ pc[c] = "Failed"
            ELSE /\ IsMsg(lastResp[c])
                 /\ lastResp[c].command = SMB_COM_ECHO
                 /\ lastResp[c].parameters_data = <<0>>
                 /\ lastResp[c].data = Req(c).data
                 /\ EchoesSent(c) = 1

\* C6 witness: count 1 and a data block with a null byte inside were echoed
C6_Witness ==
  /\ ReadAFrame(1)
  /\ lastState[1] = "AwaitEcho"
  /\ ValidEcho(Req(1))
  /\ Req(1).parameters_data = <<1, 0>>
  /\ Req(1).data = <<"pi", NUL, "ng">>
  /\ IsMsg(lastResp[1])
  /\ lastResp[1].data = <<"pi", NUL, "ng">>

\* a TREE_CONNECT_ANDX request that is valid whatever its service: a
\* terminal extension header, flags and password length, path and service
ValidTreeConnect(m) ==
  /\ m.command = SMB_COM_TREE_CONNECT_ANDX
  /\ IsRequest(m)
  /\ Len(m.parameters_data) >= 5
  /\ m.parameters_data[1] = ANDX_NONE
  /\ m.parameters_data[3] = 0
  /\ Len(m.data) >= 2

C8_TreeConnectResponseBlocks ==
  \A c \in ConnIds :
    (IsMsg(lastResp[c]) /\ lastResp[c].command = SMB_COM_TREE_CONNECT_ANDX)
      => /\ lastResp[c].parameters_data =
              <<ANDX_NONE, 0, 0, SMB_TREE_CONNECTX_SUPPORT_SEARCH>>
         /\ lastResp[c].data = <<"A:", NUL>>

Unanswered(c) == reads[c] > Len(sentCmds[c])

\* C10: once a step has failed (its request has no response), the handler
\* reads and sends nothing more on that connection: no retry, no later
\* step; and nothing it ever sends is an error response (a status other
\* than 0).
C10_FailureIsFinal ==
  /\ [](\A c \in ConnIds :
          /\ Unanswered(c) => (~IsMsg(lastResp[c]) /\ pc[c] = "Failed")
          /\ IsMsg(lastResp[c]) => lastResp[c].status = 0)
  /\ [][\A c \in ConnIds :
          Unanswered(c) =>
            /\ reads'[c] = reads[c]
            /\ sentCmds'[c] = sentCmds[c]
            /\ lastResp'[c] = lastResp[c]
            /\ pc'[c] = pc[c]]_vars

\* C10 witness: the third step failed on a service the server does not
\* provide, after two answered requests
C10_Witness ==
  /\ pc[1] = "Failed"
  /\ lastState[1] = "AwaitTreeConnect"
  /\ ValidTreeConnect(Req(1))
  /\ reads[1] = 3
  /\ sentCmds[1] = SubSeq(HandshakeOrder, 1, 2)
  /\ ~IsMsg(lastResp[1])

\* the strings a well-formed block holds from the offset the walk started
\* at, in the walk's encoding
WalkLaidOut ==
  StringsLaidOut(w_data, 61,
                 StringsStart(w_data, 61, 61 + w_blobs, w_unicode),
                 w_unicode, 4)

\* the code units between two offsets of the walked block
UnitsBetween(first, end) ==
  [j \in 1..((end - first) \div 2) |->
     <<ByteAt(w_data, 61, first + 2 * j - 2),
       ByteAt(w_data, 61, first + 2 * j - 1)>>]

\* the walk has started and has read exactly the strings the block holds:
\* field i starts where the i-th string starts, and ends at its terminator;
\* it has raised only where the block holds no further string
WalkFollowsLayout ==
  /\ Len(w_elts) <= Len(WalkLaidOut)
  /\ \A i \in 1..Len(w_elts) :
       /\ w_elts[i].first = WalkLaidOut[i].first
       /\ w_elts[i].next_offset = WalkLaidOut[i].end
  /\ w_pc = "raised" => Len(w_elts) = Len(WalkLaidOut) /\ Len(w_elts) < 4

\* C13: in double-byte mode every field of the string walk begins at an
\* even offset from the start of the message and ends at the first pair of
\* zero bytes that starts at an even offset at or after the field's start;
\* a pair at an odd offset is never taken; the field holds the code units
\* in between, none when the terminator is at its start.
C13_UnicodeFieldsAreAligned ==
  (w_unicode /\ w_pc \in {"strings", "decoded", "raised"})
    => /\ WalkFollowsLayout
       /\ w_pc # "raised" => w_offset % 2 = 0
       /\ \A i \in 1..Len(w_elts) :
            /\ w_elts[i].first % 2 = 0
            /\ w_elts[i].next_offset % 2 = 0
            /\ w_elts[i].str =
                 UnitsBetween(w_elts[i].first, w_elts[i].next_offset)
            /\ w_elts[i].next_offset = w_elts[i].first
                 => w_elts[i].str = <<>>

\* C13 witness: four fields were decoded in double-byte mode; inside one of
\* them a pair of zero bytes at an odd offset was passed over, and another
\* is empty
C13_Witness ==
  /\ w_unicode
  /\ w_pc = "decoded"
  /\ \E i \in 1..4 :
       \E k \in w_elts[i].first..(w_elts[i].next_offset - 1) :
         /\ k % 2 = 1
         /\ ByteAt(w_data, 61, k) = NUL
         /\ ByteAt(w_data, 61, k + 1) = NUL
  /\ \E i \in 1..4 : w_elts[i].str = <<>>

\* C14: in single-byte mode every field of the string walk ends at the
\* first zero byte at or after the field's start, whatever the parity of
\* its offset.
C14_AsciiFieldsEndAtFirstZero ==
  (~w_unicode /\ w_pc \in {"strings", "decoded", "raised"})
    => WalkFollowsLayout

\* the length a frame announces, the frame starting after the first b
\* bytes of the stream; 0 when the stream ends inside the prefix
AnnouncedAt(b) ==
  IF b + 4 <= Len(stream)
  THEN ((stream[b + 1] * 256 + stream[b + 2]) * 256 + stream[b + 3]) * 256
       + stream[b + 4]
  ELSE 0

\* how many bytes of the stream the first i frames take
RECURSIVE FrameEnd(_)
FrameEnd(i) ==
  IF i = 0 THEN 0
  ELSE FrameEnd(i - 1) + 4 + AnnouncedAt(FrameEnd(i - 1))

\* the peer has sent every byte of the frame being read
WholeFrameSent ==
  /\ r_start + 4 <= Len(stream)
  /\ r_start + 4 + AnnouncedAt(r_start) <= Len(stream)

\* C12: when the peer closes the stream before the 4-byte length prefix is
\* complete, or before every body byte is delivered, read_message raises:
\* the bytes received are never handed to the decoder and no response is
\* sent for them.  Every frame handed to the decoder lies whole in the
\* stream, and there are never more responses than decoded frames.
C12_ClosedStreamIsNeverDecoded ==
  /\ [](/\ r_sent <= Len(frames)
        /\ \A i \in 1..Len(frames) :
             /\ FrameEnd(i - 1) + 4 <= Len(stream)
             /\ FrameEnd(i) <= Len(stream)
             /\ frames[i] = SubSeq(stream, FrameEnd(i - 1) + 5, FrameEnd(i)))
  /\ [][ /\ (r_pc = "idle" /\ Len(stream) < s_pos + 4)
              => (r_pc' = "raised" /\ frames' = frames /\ r_sent' = r_sent)
         /\ (r_pc = "recv_all" /\ recvd # len_ /\ s_pos = Len(stream))
              => (r_pc' = "raised" /\ frames' = frames /\ r_sent' = r_sent)
       ]_vars

\* C12 witness: after one frame was read and answered, the peer closed
\* inside the body of the next one; some of its bytes had been received,
\* and the read raised
C12_Witness ==
  /\ r_pc = "raised"
  /\ Len(frames) = 1
  /\ r_sent = 1
  /\ toret # <<>>
  /\ recvd < len_
  /\ s_pos = Len(stream)

\* C15: however the bytes of a frame are split over recv calls, when the
\* peer delivers all of them read_message does not fail.
C15_ChunkedFrameIsRead ==
  r_pc = "raised" => ~WholeFrameSent

\* C16: recv_all never asks sock.recv for more than the bytes still
\* missing, and returns exactly len_ bytes, those that follow the prefix in
\* the stream, in order, making no recv call when len_ is 0; when a message
\* has been read, exactly 4 + length bytes of its frame have been taken and
\* the stream stands at the start of the next frame.
C16_RecvAllExact ==
  /\ r_asked <= r_missing
  /\ r_pc = "recv_all"
       => /\ recvd <= len_
          /\ s_pos = r_start + 4 + recvd
          /\ toret = SubSeq(stream, r_start + 5, r_start + 4 + recvd)
  /\ r_pc = "returned"
       => /\ Len(toret) = len_
          /\ toret = SubSeq(stream, r_start + 5, r_start + 4 + len_)
          /\ frames[Len(frames)] = toret
          /\ s_pos = r_start + 4 + len_
          /\ s_pos = FrameEnd(Len(frames))
          /\ len_ = 0 => r_calls = 0

\* C16 witness: the second frame was read, its body in two recv calls,
\* while the peer had already sent a third frame
C16_Witness ==
  /\ r_pc = "returned"
  /\ Len(frames) = 2
  /\ r_calls = 2
  /\ s_pos < Len(stream)

\* the extension header of a message is the terminal one: command 0xFF,
\* offset 0
TerminalAndx(m) ==
  /\ Len(m.parameters_data) >= 3
  /\ m.parameters_data[1] = 255
  /\ m.parameters_data[3] = 0

\* C17: a SESSION_SETUP_ANDX or TREE_CONNECT_ANDX request is decoded only
\* if its extension header is terminal; with any other header the decode
\* fails and the handler sends no response, in whichever state the message
\* arrives.
C17_AndxMustBeTerminal ==
  \A c \in ConnIds :
    (/\ ReadAFrame(c)
     /\ IsRequest(Req(c))
     /\ Req(c).command \in {SMB_COM_SESSION_SETUP_ANDX,
                            SMB_COM_TREE_CONNECT_ANDX}
     /\ ~TerminalAndx(Req(c)))
      => /\ ~IsMsg(lastResp[c])
         /\ pc[c] = "Failed"
         /\ Len(sentCmds[c]) = reads[c] - 1

\* C17 witness: a TREE_CONNECT_ANDX request for the service "A:" whose
\* extension header has offset 4, read in AwaitTreeConnect, was left
\* unanswered
C17_Witness ==
  /\ ReadAFrame(1)
  /\ lastState[1] = "AwaitTreeConnect"
  /\ Req(1).command = SMB_COM_TREE_CONNECT_ANDX
  /\ Req(1).parameters_data = <<255, 0, 4, 0, 0>>
  /\ Req(1).data = <<"share", "A:">>
  /\ ~IsMsg(lastResp[1])
  /\ pc[1] = "Failed"

\* a message that is the valid request of the step taken in `state`: a
\* NEGOTIATE offering "NT LM 0.12", a SESSION_SETUP_ANDX with capabilities
\* inside the server's, a TREE_CONNECT_ANDX for "?????" or "A:", an ECHO
\* with a count of at most 1
ValidStepRequest(state, m) ==
  CASE state = "AwaitNegotiate" ->
         /\ m.command = SMB_COM_NEGOTIATE
         /\ IsRequest(m)
         /\ ~Unterminated(m.data)
         /\ OfferedIndexOneMarker(m.data) # -1
    [] state = "AwaitSessionSetup" ->
         /\ ValidSessionSetup(m)
         /\ ~HasBitOutside(m.parameters_data[11],
                           CAP_UNICODE + CAP_LARGE_FILES + CAP_STATUS32)
    [] state = "AwaitTreeConnect" ->
         /\ ValidTreeConnect(m)
         /\ m.data[2] \in {"?????", "A:"}
    [] state = "AwaitEcho" ->
         /\ ValidEcho(m)
         /\ m.parameters_data[1] + 256 * m.parameters_data[2] <= 1
    [] OTHER -> FALSE

\* the peer sent a whole frame and every byte of it arrives: the first
\* recv returned some of its bytes, the peer did not close
EveryByteDelivered(d) == d.got >= 1 /\ ~d.eof /\ d.signature_ok

\* C18: when each request the peer sends is the valid one of its step and
\* every byte of it is delivered, the step ends with its response sent, so
\* that the four responses go out in order and the handler is done after
\* the fourth; and in every run the handler makes at most four reads and
\* four sends.
C18_ValidHandshakeCompletes ==
  \A c \in ConnIds :
    /\ reads[c] <= 4
    /\ Len(sentCmds[c]) <= 4
    /\ (/\ reads[c] > 0
        /\ EveryByteDelivered(lastReq[c])
        /\ ValidStepRequest(lastState[c], lastReq[c].message))
         => /\ IsMsg(lastResp[c])
            /\ sentCmds[c] = SubSeq(HandshakeOrder, 1, reads[c])
            /\ reads[c] = 4 => pc[c] = "Done"

\* what read_message meets when the peer sends the valid request of the
\* step and every byte arrives: the frame, of which the first recv(4)
\* returns one to four bytes
ValidPeerDeliveries(state) ==
  { [got |-> g, eof |-> FALSE, signature_ok |-> TRUE, message |-> m] :
      g \in 1..4, m \in { r \in Requests : ValidStepRequest(state, r) } }

\* the steps of a handler whose peer sends the four valid requests in
\* order, on a host whose clock is on UTC
ValidPeerNegotiate(c) ==
  /\ pc[c] = "AwaitNegotiate"
  /\ \E d \in ValidPeerDeliveries("AwaitNegotiate") :
       Exchange(c, d, HandleNegotiate(d, 0))

ValidPeerSessionSetup(c) ==
  /\ pc[c] = "AwaitSessionSetup"
  /\ \E d \in ValidPeerDeliveries("AwaitSessionSetup") :
       Exchange(c, d, HandleSessionSetup(d))

ValidPeerTreeConnect(c) ==
  /\ pc[c] = "AwaitTreeConnect"
  /\ \E d \in ValidPeerDeliveries("AwaitTreeConnect") :
       Exchange(c, d, HandleTreeConnect(d))

ValidPeerEcho(c) ==
  /\ pc[c] = "AwaitEcho"
  /\ \E d \in ValidPeerDeliveries("AwaitEcho") :
       Exchange(c, d, HandleEcho(d))

NextValidPeer ==
  \E c \in OneConn :
    \/ Accept(c)
    \/ ValidPeerNegotiate(c)
    \/ ValidPeerSessionSetup(c)
    \/ ValidPeerTreeConnect(c)
    \/ ValidPeerEcho(c)

\* the handler's thread keeps running while it has a step to take
SpecValidPeer ==
  Init /\ [][NextValidPeer]_vars /\ WF_vars(NextValidPeer)

\* everything the model keeps for connection c
ConnView(c) ==
  <<pc[c], reads[c], sentCmds[c], readCmds[c], lastReq[c], lastState[c],
    lastResp[c], postedCaps[c]>>

\* what the step taken in `state` does with the delivery d
StepOutcome(state, d, utc_offset) ==
  CASE state = "AwaitNegotiate" -> HandleNegotiate(d, utc_offset)
    [] state = "AwaitSessionSetup" -> HandleSessionSetup(d)
    [] state = "AwaitTreeConnect" -> HandleTreeConnect(d)
    [] state = "AwaitEcho" -> HandleEcho(d)
    [] OTHER -> RaiseOut

\* C11: with two connections handled concurrently, in every interleaving,
\* a step that changes anything of one connection changes nothing of the
\* other, and what it leaves (next state, response) is what the handler
\* makes of that connection's own state and of the message it just read;
\* a connection that has failed or finished stays as it is whatever the
\* other one does.
C11_ConnectionsAreIndependent ==
  [][\A c \in ConnIds :
       ConnView(c)' # ConnView(c)
         => /\ \A o \in ConnIds \ {c} : ConnView(o)' = ConnView(o)
            /\ pc[c] \notin {"Failed", "Done"}
            /\ \/ pc[c] = "Listening" /\ pc'[c] = "AwaitNegotiate"
               \/ \E utc_offset \in TzOffsets :
                    LET out == StepOutcome(pc[c], lastReq'[c], utc_offset)
                    IN /\ pc'[c] = out.next
                       /\ lastResp'[c] = out.resp
                       /\ reads'[c] = reads[c] + 1
    ]_vars

\* C11 witness: connection 1 failed at its SESSION_SETUP_ANDX step, and
\* connection 2 has sent its four responses
C11_Witness ==
  /\ pc[1] = "Failed"
  /\ sentCmds[1] = <<SMB_COM_NEGOTIATE>>
  /\ pc[2] = "Done"
  /\ sentCmds[2] = HandshakeOrder
====
